---------------------------- MODULE Spec2Model ----------------------------
(***************************************************************************)
(* A model of the spring store of src/src/lib/spring.ts (makeSpringStore)  *)
(* and of the vector helpers of src/lib/vec-math (src/unnamed/part_000).   *)
(*                                                                         *)
(* Numbers.  Every JavaScript number of the model is an integer, and the   *)
(* inputs are chosen so that every product the code forms is an integer    *)
(* too.  Times are kept in milliseconds: the code's seconds (dt, maxDt,    *)
(* remainingDt) are the model's values divided by 1000.  Only differences  *)
(* of frame timestamps enter the code, so a frame carries the difference   *)
(* to the previous timestamp.  A factor handed to scale() is a fraction    *)
(* <<numerator, denominator>>.  A store into a Float32Array rounds to      *)
(* single precision (Fround).                                              *)
(*                                                                         *)
(* Control.  follow() is an async function: it runs from one await to the  *)
(* next without interruption.  Each piece is one action.  A settled        *)
(* promise resumes the loop in a later microtask, so the calls of the      *)
(* public methods may fall between the settlement and the continuation;    *)
(* they may also be made by a subscriber of the current-value or velocity  *)
(* store while the loop publishes (tests/spring.test.ts calls pause() from *)
(* such a subscriber).  Subscribers of state$ only observe.                *)
(***************************************************************************)
EXTENDS Integers, Sequences, FiniteSets, TLC

\* The number of runs (calls of follow() that leave idle) in one behaviour.
MaxRuns == 2
\* The number of pause() calls that find the state running in one behaviour.
MaxPauses == 2

\* The configuration the store is made with: {dt: 1, maxDt: 2, stiffness: 1,
\* damping: 1, precision: 1} (dt and maxDt in milliseconds, precision in
\* tenths here).
dt == 1000
maxDt == 2000
stiffnessConfig == 1
dampingConfig == 1
precisionConfig == 10

\* The values config?.stiffness, config?.damping and config?.precision fall
\* back to: 300, 30 and 0.1 (in tenths).
stiffnessDefault == 300
dampingDefault == 30
precisionDefault == 1

\* The values the modelled stores are made with: a number, an array and a
\* record.
InitialNumbers == {0}
InitialArrays == {<<0, 2>>}
InitialRecords == {[x |-> 0, y |-> 2]}
\* The targets a caller sets.  33554434 = 2^25 + 2 is an integer that single
\* precision does not hold.
TargetNumbers == {2, 33554434}
TargetArrays == {<<2, 33554434>>}
TargetRecords == {[x |-> 2, y |-> 0]}
\* The arguments given to the accessors precision(), damping() and
\* stiffness(); Undefined stands for a call without argument, and for a
\* configuration without the field.
Undefined == -1
PrecisionArgs == {Undefined, 0}
DampingArgs == {Undefined, 1}
StiffnessArgs == {Undefined, 1}
\* The differences, in milliseconds, between a frame's timestamp and the one
\* before it.
FrameDeltas == {-1000, 0, 500, 9000}
\* The differences with which no sub-step is run, so that the dynamics stay
\* the same whatever stiffness and damping are set.
StalledFrameDeltas == {-1000}
\* The contents of the buffers handed to vec-math on its own, the factors
\* handed to scale() (as <<numerator, denominator>>), and the bounds on the
\* number of buffers and on the size of a component.
VecInputs == {<<1>>, <<-2>>}
ScaleFactors == {<<2, 1>>, <<-1, 1>>}
MaxBuffers == 3
MaxComponent == 3
\* The targets, the stiffnesses and the dampings of the store whose spring is
\* retuned during a run, the timestamp differences of its frames (and of the
\* frames of the store whose scheduler may fail), and the bound on the size of
\* its physics value and velocity.
TunedTargets == {2, 5}
TunedStiffness == {Undefined, 1, 2}
TunedDamping == {Undefined, 1, 2}
TunedFrameDeltas == {1000, 9000}
MaxMagnitude == 12

---------------------------------------------------------------------------
\* Numbers

Abs(x) == IF x < 0 THEN -x ELSE x

Min(a, b) == IF a < b THEN a ELSE b

\* The spacing of the single-precision numbers around a (a >= 0): 1 below 2^24,
\* doubling with each binade above.
RECURSIVE Ulp(_, _)
Ulp(a, q) == IF a < 16777216 * q THEN q ELSE Ulp(a, 2 * q)

\* Math.fround on an integer: round to the nearest single-precision number,
\* ties to the even significand.
Fround(n) ==
    LET a  == Abs(n)
        q  == Ulp(a, 1)
        lo == (a \div q) * q
        r  == a - lo
        up == IF 2 * r < q THEN lo
              ELSE IF 2 * r > q THEN lo + q
              ELSE IF (lo \div q) % 2 = 0 THEN lo ELSE lo + q
    IN  IF n < 0 THEN -up ELSE up

\* x * k for a factor k = <<numerator, denominator>>.
Times(x, k) == (x \div k[2]) * k[1] + ((x % k[2]) * k[1]) \div k[2]

---------------------------------------------------------------------------
\* src/lib/vec-math: a Float32Array is a sequence of single-precision numbers.
\* The operators give the returned array.

add(vMut, other, copy) == [i \in 1..Len(vMut) |-> Fround(vMut[i] + other[i])]

sub(vMut, other, copy) == [i \in 1..Len(vMut) |-> Fround(vMut[i] - other[i])]

scale(vMut, k, copy) == [i \in 1..Len(vMut) |-> Fround(Times(vMut[i], k))]

\* Array.prototype.some((x) => Math.abs(x) >= p), p in tenths.
SomeAtLeast(arr, p) == \E i \in 1..Len(arr) : 10 * Abs(arr[i]) >= p

\* The sum of the squares norm() takes the root of.
RECURSIVE SumOfSquares(_, _)
SumOfSquares(v, n) == IF n = 0 THEN 0 ELSE SumOfSquares(v, n - 1) + v[n] * v[n]

\* Math.sqrt, rounded down to an integer.
RECURSIVE Sqrt(_, _)
Sqrt(n, r) == IF (r + 1) * (r + 1) > n THEN r ELSE Sqrt(n, r + 1)

norm(v) == Sqrt(SumOfSquares(v, Len(v)), 0)

---------------------------------------------------------------------------
\* The state of one store.

VARIABLES
    shape,                \* typeof value, read once by makeSpringStore
    valueKeys,            \* the keys captured from the initial value
    stiffness, damping, precision,
    targetValue,          \* the latched target, a Float32Array
    physicsState,         \* [velocity, value], Float32Arrays
    interpolatedState,    \* [velocity, value], Float32Arrays
    remainingDelta,       \* a Float32Array
    state,                \* the content of state$
    target,               \* the content of target$
    current,              \* the content of current$ (the store itself)
    velocity,             \* the content of velocity$
    idlePromise, resumePromise, pausePromise,
                          \* 0 (undefined) or the promise's number
    resolveIdlePromise, resolveResumePromise, rejectResumePromise,
    resolvePausePromise, rejectPausePromise,
                          \* 0 (noop) or the number of the promise it settles
    idlePromises, resumePromises, pausePromises,
                          \* the promises made so far, by number: each is
                          \* "pending", "resolved" or "rejected"
    pc,                   \* where follow() is suspended; "none": not called
    done,                 \* follow()'s local done
    previousTime,         \* follow()'s local previousTime: is it defined
    awaited,              \* the value of resumePromise given to await
    rafPromise,           \* the promise of the last waitAnimationFrame()
    op,                   \* the last step taken (a record of the trace)
    skipFrom,             \* the state in which skip() took effect in the run
                          \* under way ("none": it has not)
    resumedIn,            \* the state in which resume() was last invoked
                          \* since the latest effective pause() ("none": it
                          \* has not been)
    loops,                \* the calls of follow() that passed the idle guard
                          \* and have not returned
    firstTarget,          \* no target has been set since makeSpringStore
    reported,             \* the calls of console.error
    currentRef, velocityRef, targetRef,
                          \* the container (array or object) each store
                          \* holds: "value" is makeSpringStore's argument,
                          \* "caller" one given to target$.set, "fresh" one
                          \* that the store allocated for this content
    buffers,              \* vec-math on its own: the Float32Arrays allocated
    call                  \* vec-math on its own: the last call and its result

config == <<shape, valueKeys, stiffness, damping, precision>>
physics == <<targetValue, physicsState, interpolatedState, remainingDelta>>
stores == <<state, target, current, velocity>>
gates == <<idlePromise, resumePromise, pausePromise, resolveIdlePromise,
           resolveResumePromise, rejectResumePromise, resolvePausePromise,
           rejectPausePromise, idlePromises, resumePromises, pausePromises>>
loop == <<pc, done, previousTime, awaited, rafPromise, loops>>
history == <<skipFrom, resumedIn, firstTarget>>
refs == <<currentRef, velocityRef, targetRef>>
vec == <<buffers, call>>
vars == <<config, physics, stores, gates, loop, op, history, reported, refs,
          vec>>

States == {"idle", "running", "pausing", "skipping", "paused"}

\* The value with every key set to 0.
allZeros ==
    IF shape = "number" THEN 0
    ELSE [k \in {valueKeys[i] : i \in 1..Len(valueKeys)} |-> 0]

cloneValue(x) == x

\* The container cloneValue(x) returns: a new array or object, whatever x is.
cloneContainer(x) == "fresh"

valueToFloat32Array(v) ==
    IF shape = "number" THEN <<Fround(v)>>
    ELSE [i \in 1..Len(valueKeys) |-> Fround(v[valueKeys[i]])]

float32ArrayToValue(arr) ==
    IF shape = "number" THEN arr[1]
    ELSE [k \in DOMAIN cloneValue(allZeros) |->
            IF \E i \in 1..Len(valueKeys) : valueKeys[i] = k
            THEN arr[CHOOSE i \in 1..Len(valueKeys) : valueKeys[i] = k]
            ELSE allZeros[k]]

\* The content of speed$, derived from velocity$.
speed == norm(valueToFloat32Array(velocity))

---------------------------------------------------------------------------
\* The physics.

PhysicsState(vel, val) == [velocity |-> vel, value |-> val]

\* integrate(dt, state), with the remainingDelta it reads; h in milliseconds.
integrateExplicit(h, st, delta) ==
    LET elasticForce == scale(delta, <<stiffness, 1>>, TRUE)
        friction     == scale(st.velocity, <<damping, 1>>, TRUE)
        acceleration == sub(elasticForce, friction, FALSE)
        dVelocity    == scale(acceleration, <<h, 1000>>, FALSE)
        dValue       == scale(st.velocity, <<h, 1000>>, TRUE)
    IN  PhysicsState(add(dVelocity, st.velocity, FALSE),
                     add(dValue, st.value, FALSE))

integrate(h, st, delta) ==
    LET elasticForce == scale(delta, <<stiffness, 1>>, TRUE)
        friction     == scale(st.velocity, <<damping, 1>>, TRUE)
        acceleration == sub(elasticForce, friction, FALSE)
        dVelocity    == scale(acceleration, <<h, 1000>>, FALSE)
        vel          == add(dVelocity, st.velocity, FALSE)
        dValue       == scale(vel, <<h, 1000>>, TRUE)
    IN  PhysicsState(vel, add(dValue, st.value, FALSE))

\* A snap that keeps the value of the physics state.
skipToTargetStale ==
    PhysicsState(valueToFloat32Array(allZeros), physicsState.value)

\* skipToTarget()'s result; it also sets remainingDelta to zeros.
skipToTarget == PhysicsState(valueToFloat32Array(allZeros), targetValue)

\* while (remainingDt > 0) { ... } of one frame, on the frame's locals.
RECURSIVE SubSteps(_)
SubSteps(f) ==
    IF f.remainingDt > 0
    THEN LET delta == sub(targetValue, f.physicsState.value, TRUE)
         IN  SubSteps([remainingDelta |-> delta,
                       previousState  |-> f.physicsState,
                       physicsState   |-> integrate(dt, f.physicsState, delta),
                       remainingDt    |-> f.remainingDt - dt])
    ELSE f

\* Math.min(maxDt, (currentTime - previousTime) / 1000 || dt), in milliseconds.
SampledIntervalUncapped(delta) == IF delta = 0 THEN dt ELSE delta
SampledInterval(delta) == Min(maxDt, IF delta = 0 THEN dt ELSE delta)

\* The locals of case 'running' after the sub-steps of a frame whose timestamp
\* is delta after the previous one.
FrameSteps(delta) ==
    SubSteps([remainingDelta |-> remainingDelta,
              previousState  |-> physicsState,
              physicsState   |-> physicsState,
              remainingDt    |-> SampledInterval(delta)])

\* interpolatedState of a frame: the blend of the last two physics states.
Interpolate(f) ==
    LET interpolationRatio == <<dt + f.remainingDt, dt>>
        oneMinusRatio      == <<-f.remainingDt, dt>>
    IN  PhysicsState(
            add(scale(f.physicsState.velocity, interpolationRatio, TRUE),
                scale(f.previousState.velocity, oneMinusRatio, TRUE), FALSE),
            add(scale(f.physicsState.value, interpolationRatio, TRUE),
                scale(f.previousState.value, oneMinusRatio, TRUE), FALSE))

\* The stop condition of a frame.
Converged(f) ==
    ~(SomeAtLeast(f.remainingDelta, precision)
      \/ SomeAtLeast(f.physicsState.velocity, precision))

---------------------------------------------------------------------------
\* The stores and the promises.

NoFrame == [status |-> "none", time |-> 0]

NoAwait == <<"none", 0>>

\* No function of vec-math has been called on its own.
NoCall == [fn |-> "none", vMut |-> 0, other |-> 0, k |-> <<1, 1>>,
           copy |-> FALSE, returned |-> 0]

\* What a step leaves in op: its name, the state it found, the promise its
\* caller awaits (NoAwait: none, the call's promise resolves at once) and
\* whether it called current$.set; an accessor adds the argument it was given
\* and the value it returned.
Step(name, awaits, pub) ==
    [name |-> name, from |-> state, awaits |-> awaits, pub |-> pub,
     arg |-> Undefined, ret |-> Undefined]

\* c ?? d
Configured(c, d) == IF c = Undefined THEN d ELSE c

\* The body of an accessor: if (newX !== undefined) { x = newX }, and x is
\* what it returns.
AccessorKeepsOld(x, newX) == x
Accessor(x, newX) == IF newX # Undefined THEN newX ELSE x

Zeros == valueToFloat32Array(allZeros)

pauseGate == <<pausePromise, resolvePausePromise, rejectPausePromise,
               pausePromises>>
resumeGate == <<resumePromise, resolveResumePromise, rejectResumePromise,
                resumePromises>>
idleGate == <<idlePromise, resolveIdlePromise, idlePromises>>

\* state$.set(s) with a subscriber that makes a promise at every state other
\* than idle.
SetStateFreshGate(s) ==
    /\ state' = s
    /\ IF s = "idle"
       THEN /\ idlePromises' =
                 IF resolveIdlePromise = 0 THEN idlePromises
                 ELSE [idlePromises EXCEPT ![resolveIdlePromise] = "resolved"]
            /\ idlePromise' = 0
            /\ resolveIdlePromise' = 0
       ELSE /\ idlePromises' = Append(idlePromises, "pending")
            /\ idlePromise' = Len(idlePromises) + 1
            /\ resolveIdlePromise' = Len(idlePromises) + 1

\* state$.set(s) that takes a request to pause for the pause itself.
SetStatePausesAtOnce(s) ==
    /\ state' = IF s = "pausing" THEN "paused" ELSE s
    /\ IF s = "idle"
       THEN /\ idlePromises' =
                 IF resolveIdlePromise = 0 THEN idlePromises
                 ELSE [idlePromises EXCEPT ![resolveIdlePromise] = "resolved"]
            /\ idlePromise' = 0
            /\ resolveIdlePromise' = 0
       ELSE IF idlePromise = 0
       THEN /\ idlePromises' = Append(idlePromises, "pending")
            /\ idlePromise' = Len(idlePromises) + 1
            /\ resolveIdlePromise' = Len(idlePromises) + 1
       ELSE UNCHANGED idleGate

\* state$.set(s) with a subscriber that resolves the promise at idle and
\* keeps it.
SetStateKeepsGate(s) ==
    /\ state' = s
    /\ IF s = "idle"
       THEN /\ idlePromises' =
                 IF resolveIdlePromise = 0 THEN idlePromises
                 ELSE [idlePromises EXCEPT ![resolveIdlePromise] = "resolved"]
            /\ UNCHANGED <<idlePromise, resolveIdlePromise>>
       ELSE IF idlePromise = 0
       THEN /\ idlePromises' = Append(idlePromises, "pending")
            /\ idlePromise' = Len(idlePromises) + 1
            /\ resolveIdlePromise' = Len(idlePromises) + 1
       ELSE UNCHANGED idleGate

\* state$.set(s), with the subscriber makeSpringStore gives state$.
SetState(s) ==
    /\ state' = s
    /\ IF s = "idle"
       THEN /\ idlePromises' =
                 IF resolveIdlePromise = 0 THEN idlePromises
                 ELSE [idlePromises EXCEPT ![resolveIdlePromise] = "resolved"]
            /\ idlePromise' = 0
            /\ resolveIdlePromise' = 0
       ELSE IF idlePromise = 0
       THEN /\ idlePromises' = Append(idlePromises, "pending")
            /\ idlePromise' = Len(idlePromises) + 1
            /\ resolveIdlePromise' = Len(idlePromises) + 1
       ELSE UNCHANGED idleGate

\* The callbacks pause() stores for its two promises: how is "resolved" for
\* res(), "rejected" for rej(err); fn is the stored callback (0: noop).
SettlePause(fn, how) ==
    IF fn = 0 THEN UNCHANGED pauseGate
    ELSE /\ pausePromises' = [pausePromises EXCEPT ![fn] = how]
         /\ pausePromise' = 0
         /\ resolvePausePromise' = 0
         /\ rejectPausePromise' = 0

SettleResumeNever(fn, how) == UNCHANGED resumeGate
SettleResume(fn, how) ==
    IF fn = 0 THEN UNCHANGED resumeGate
    ELSE /\ resumePromises' = [resumePromises EXCEPT ![fn] = how]
         /\ resumePromise' = 0
         /\ resolveResumePromise' = 0
         /\ rejectResumePromise' = 0

\* physicsState = skipToTarget(); interpolatedState = physicsState; done = true
SnapToTarget ==
    /\ physicsState' = skipToTarget
    /\ interpolatedState' = skipToTarget
    /\ remainingDelta' = Zeros
    /\ done' = TRUE

---------------------------------------------------------------------------
\* makeSpringStore(value, config)

InitStore ==
    /\ \/ /\ shape = "number"
          /\ valueKeys = << >>
          /\ target \in InitialNumbers
       \/ /\ shape = "array"
          /\ target \in InitialArrays
          /\ valueKeys = [i \in 1..Len(target) |-> i]
       \/ /\ shape = "record"
          /\ target \in InitialRecords
          /\ valueKeys = <<"x", "y">>
    /\ targetValue = valueToFloat32Array(target)
    /\ physicsState = PhysicsState(Zeros, valueToFloat32Array(target))
    /\ interpolatedState = PhysicsState(Zeros, valueToFloat32Array(target))
    /\ remainingDelta = Zeros
    /\ state = "idle"
    /\ current = target
    /\ velocity = cloneValue(allZeros)
    /\ idlePromise = 0 /\ resumePromise = 0 /\ pausePromise = 0
    /\ resolveIdlePromise = 0
    /\ resolveResumePromise = 0 /\ rejectResumePromise = 0
    /\ resolvePausePromise = 0 /\ rejectPausePromise = 0
    /\ idlePromises = << >> /\ resumePromises = << >> /\ pausePromises = << >>
    /\ pc = "none"
    /\ done = FALSE
    /\ previousTime = FALSE
    /\ awaited = 0
    /\ rafPromise = NoFrame
    /\ op = [name |-> "makeSpringStore", from |-> "idle", awaits |-> NoAwait,
             pub |-> FALSE, arg |-> Undefined, ret |-> Undefined]
    /\ skipFrom = "none"
    /\ resumedIn = "none"
    /\ loops = 0
    /\ firstTarget = TRUE
    /\ reported = 0
    /\ currentRef = "value"
    /\ targetRef = "value"
    /\ velocityRef = cloneContainer("value")
    /\ buffers = << >>
    /\ call = NoCall

\* makeSpringStore(value, config) with the configuration above.
Init ==
    /\ InitStore
    /\ stiffness = Configured(stiffnessConfig, stiffnessDefault)
    /\ damping = Configured(dampingConfig, dampingDefault)
    /\ precision = Configured(precisionConfig, precisionDefault)

\* The targets a caller may set on this store.
Targets ==
    IF shape = "number" THEN TargetNumbers
    ELSE IF shape = "array" THEN TargetArrays ELSE TargetRecords

\* The guard of follow(): it goes on only when the state is idle.
FollowStartsNever == FALSE
FollowStartsAlways == TRUE
FollowStarts == state = "idle"

\* target$.set(v) for a v that makes target$ notify (makeStore's set does not
\* notify for a number equal to the content), with the subscriber of target$:
\* it latches the target and calls follow(), which returns at once unless the
\* state is idle and otherwise runs to its first await.
TargetSet(v) ==
    /\ targetRef' = "caller"
    /\ UNCHANGED <<currentRef, velocityRef>>
    /\ UNCHANGED <<reported, vec>>
    /\ shape = "number" => v # target
    /\ target' = v
    /\ targetValue' = valueToFloat32Array(v)
    /\ IF FollowStarts
       THEN /\ Len(idlePromises) < MaxRuns
            /\ SetState("running")
            /\ done' = FALSE
            /\ previousTime' = FALSE
            /\ rafPromise' = [status |-> "pending", time |-> 0]
            /\ pc' = "previousTime"
            /\ loops' = loops + 1
       ELSE UNCHANGED <<state, idleGate, done, previousTime, rafPromise, pc,
                        loops>>
    /\ op' = Step("target$.set", NoAwait, FALSE)
    /\ firstTarget' = FALSE
    /\ UNCHANGED <<config, physicsState, interpolatedState, remainingDelta,
                   current, velocity, pauseGate, resumeGate, awaited,
                   skipFrom, resumedIn>>

\* if (state$.content() === 'running') of pause()
PauseTakesEffectAlways == TRUE
PauseTakesEffectUnlessIdle == state # "idle"
PauseTakesEffectAlsoPaused == state \in {"running", "paused"}
PauseTakesEffectAlsoPausing == state \in {"running", "pausing"}
PauseTakesEffect == state = "running"

\* pause()
Pause ==
    /\ UNCHANGED refs
    /\ UNCHANGED <<reported, vec>>
    /\ IF PauseTakesEffect
       THEN /\ Len(pausePromises) < MaxPauses
            /\ SetState("pausing")
            /\ pausePromises' = Append(pausePromises, "pending")
            /\ pausePromise' = Len(pausePromises) + 1
            /\ resolvePausePromise' = Len(pausePromises) + 1
            /\ rejectPausePromise' = Len(pausePromises) + 1
            /\ resumePromises' = Append(resumePromises, "pending")
            /\ resumePromise' = Len(resumePromises) + 1
            /\ resolveResumePromise' = Len(resumePromises) + 1
            /\ rejectResumePromise' = Len(resumePromises) + 1
            /\ resumedIn' = "none"
       ELSE UNCHANGED <<state, idleGate, pauseGate, resumeGate, resumedIn>>
    /\ op' = Step("pause", IF pausePromise' = 0 THEN NoAwait
                           ELSE <<"pause", pausePromise'>>, FALSE)
    /\ UNCHANGED <<config, physics, target, current, velocity, loop,
                   skipFrom, firstTarget>>

\* resume()
Resume ==
    /\ UNCHANGED refs
    /\ UNCHANGED <<reported, vec>>
    /\ SettleResume(resolveResumePromise, "resolved")
    /\ resumedIn' = state
    /\ op' = Step("resume", NoAwait, FALSE)
    /\ UNCHANGED <<config, physics, stores, idleGate, pauseGate, loop,
                   skipFrom, firstTarget>>

\* The condition of skip(): a run is under way and not yet skipping.
SkipTakesEffectAlways == TRUE
SkipTakesEffectOnlyRunning == state = "running" /\ idlePromise # 0
SkipTakesEffectUnlessPausing ==
    state \in {"running", "paused"} /\ idlePromise # 0
SkipTakesEffect ==
    state \in {"running", "pausing", "paused"} /\ idlePromise # 0

\* skip()
Skip ==
    /\ UNCHANGED refs
    /\ UNCHANGED <<reported, vec>>
    /\ IF SkipTakesEffect
       THEN /\ SetState("skipping")
            /\ SettleResume(rejectResumePromise, "rejected")
            /\ SettlePause(rejectPausePromise, "rejected")
            /\ op' = Step("skip", <<"idle", idlePromise>>, FALSE)
            /\ skipFrom' = state
       ELSE /\ UNCHANGED <<state, idleGate, pauseGate, resumeGate, skipFrom>>
            /\ op' = Step("skip", NoAwait, FALSE)
    /\ UNCHANGED <<config, physics, target, current, velocity, loop,
                   resumedIn, firstTarget>>

\* idle()
Idle ==
    /\ UNCHANGED refs
    /\ UNCHANGED <<reported, vec>>
    /\ op' = Step("idle", IF idlePromise = 0 THEN NoAwait
                          ELSE <<"idle", idlePromise>>, FALSE)
    /\ UNCHANGED <<config, physics, stores, gates, loop, history>>

\* precision(newPrecision?), damping(newDamping?), stiffness(newStiffness?)
Precision(newPrecision) ==
    /\ UNCHANGED refs
    /\ UNCHANGED <<reported, vec>>
    /\ precision' = Accessor(precision, newPrecision)
    /\ op' = [Step("precision", NoAwait, FALSE)
                EXCEPT !.arg = newPrecision, !.ret = precision']
    /\ UNCHANGED <<shape, valueKeys, stiffness, damping, physics, stores,
                   gates, loop, history>>

Damping(newDamping) ==
    /\ UNCHANGED refs
    /\ UNCHANGED <<reported, vec>>
    /\ damping' = Accessor(damping, newDamping)
    /\ op' = [Step("damping", NoAwait, FALSE)
                EXCEPT !.arg = newDamping, !.ret = damping']
    /\ UNCHANGED <<shape, valueKeys, stiffness, precision, physics, stores,
                   gates, loop, history>>

Stiffness(newStiffness) ==
    /\ UNCHANGED refs
    /\ UNCHANGED <<reported, vec>>
    /\ stiffness' = Accessor(stiffness, newStiffness)
    /\ op' = [Step("stiffness", NoAwait, FALSE)
                EXCEPT !.arg = newStiffness, !.ret = stiffness']
    /\ UNCHANGED <<shape, valueKeys, damping, precision, physics, stores,
                   gates, loop, history>>

---------------------------------------------------------------------------
\* The frame scheduler and the pieces of follow().

\* The state the finally block of follow() sets.
finallyStateRunning == "running"
finallyState == "idle"

\* The callback waitAnimationFrame() gave to request() is called with a
\* timestamp: rafPromise resolves.  delta is the timestamp less the previous
\* frame's; the first frame of a run has no previous one.
FrameCallback(delta) ==
    /\ UNCHANGED refs
    /\ UNCHANGED <<reported, vec>>
    /\ rafPromise.status = "pending"
    /\ rafPromise' = [status |-> "resolved",
                      time |-> IF previousTime THEN delta ELSE 0]
    /\ op' = Step("frame", NoAwait, FALSE)
    /\ UNCHANGED <<config, physics, stores, gates, pc, done, previousTime,
                   awaited, loops, history>>

\* previousTime = previousTime ?? (await waitAnimationFrame()), resumed; on to
\* const currentTime = await waitAnimationFrame().
LoopPreviousTime ==
    /\ UNCHANGED refs
    /\ UNCHANGED <<reported, vec>>
    /\ pc = "previousTime"
    /\ rafPromise.status = "resolved"
    /\ previousTime' = TRUE
    /\ rafPromise' = [status |-> "pending", time |-> 0]
    /\ pc' = "currentTime"
    /\ op' = Step("follow:previousTime", NoAwait, FALSE)
    /\ UNCHANGED <<config, physics, stores, gates, done, awaited, loops,
                   history>>

\* case 'running' from the resumption of await waitAnimationFrame() to
\* current$.set(...): the sub-steps, the interpolation, the stop condition.
LoopFrame ==
    /\ currentRef' = cloneContainer(allZeros)
    /\ UNCHANGED <<velocityRef, targetRef>>
    /\ UNCHANGED <<reported, vec>>
    /\ pc = "currentTime"
    /\ rafPromise.status = "resolved"
    /\ LET f == FrameSteps(rafPromise.time)
       IN  IF Converged(f)
           THEN SnapToTarget
           ELSE /\ physicsState' = f.physicsState
                /\ interpolatedState' = Interpolate(f)
                /\ remainingDelta' = f.remainingDelta
                /\ done' = FALSE
    /\ previousTime' = TRUE
    /\ rafPromise' = NoFrame
    /\ current' = float32ArrayToValue(interpolatedState'.value)
    /\ pc' = "velocity"
    /\ op' = Step("follow:frame", NoAwait, TRUE)
    /\ UNCHANGED <<config, targetValue, state, target, velocity, gates,
                   awaited, loops, history>>

\* velocity$.set(float32ArrayToValue(interpolatedState.velocity)), after the
\* subscribers of current$ have run.
LoopVelocity ==
    /\ velocityRef' = cloneContainer(allZeros)
    /\ UNCHANGED <<currentRef, targetRef>>
    /\ UNCHANGED <<reported, vec>>
    /\ pc = "velocity"
    /\ velocity' = float32ArrayToValue(interpolatedState.velocity)
    /\ pc' = "while"
    /\ op' = Step("follow:velocity", NoAwait, FALSE)
    /\ UNCHANGED <<config, physics, state, target, current, gates, done,
                   previousTime, awaited, rafPromise, loops, history>>

\* After the subscribers of velocity$ have run: while (!done) and the switch
\* on the state, up to the next await or the next current$.set; with done set,
\* the finally block.
LoopWhile ==
    /\ UNCHANGED <<reported, vec>>
    /\ pc = "while"
    /\ IF done
       THEN /\ SetState(finallyState)
            /\ pc' = "none"
            /\ done' = FALSE
            /\ previousTime' = FALSE
            /\ op' = Step("follow:finally", NoAwait, FALSE)
            /\ skipFrom' = "none"
            /\ loops' = loops - 1
            /\ UNCHANGED <<physics, current, pauseGate, resumeGate, awaited,
                           rafPromise>>
       ELSE CASE state = "skipping" ->
                 /\ SnapToTarget
                 /\ current' = float32ArrayToValue(skipToTarget.value)
                 /\ pc' = "velocity"
                 /\ op' = Step("follow:skipping", NoAwait, TRUE)
                 /\ UNCHANGED <<targetValue, state, idleGate, pauseGate,
                                resumeGate, previousTime, awaited, rafPromise,
                                skipFrom, loops>>
              [] state = "pausing" ->
                 /\ SettlePause(resolvePausePromise, "resolved")
                 /\ SetState("paused")
                 /\ awaited' = resumePromise
                 /\ pc' = "resume"
                 /\ op' = Step("follow:pausing", NoAwait, FALSE)
                 /\ UNCHANGED <<physics, current, resumeGate, done,
                                previousTime, rafPromise, skipFrom, loops>>
              [] state = "running" ->
                 /\ rafPromise' = [status |-> "pending", time |-> 0]
                 /\ pc' = IF previousTime THEN "currentTime"
                          ELSE "previousTime"
                 /\ op' = Step("follow:running", NoAwait, FALSE)
                 /\ UNCHANGED <<physics, state, current, gates, done,
                                previousTime, awaited, skipFrom, loops>>
              [] OTHER ->
                 /\ current' = float32ArrayToValue(interpolatedState.value)
                 /\ pc' = "velocity"
                 /\ op' = Step("follow:break", NoAwait, TRUE)
                 /\ UNCHANGED <<physics, state, gates, done, previousTime,
                                awaited, rafPromise, skipFrom, loops>>
    /\ UNCHANGED <<config, target, velocity, resumedIn, firstTarget>>
    /\ currentRef' = IF op'.pub THEN cloneContainer(allZeros) ELSE currentRef
    /\ UNCHANGED <<velocityRef, targetRef>>

\* The state the continuation of await resumePromise sets.
resumedStatePaused == "paused"
resumedState == "running"

\* How the value given to await resumePromise stands; awaiting undefined
\* resumes like awaiting a resolved promise.
AwaitedResume == IF awaited = 0 THEN "resolved" ELSE resumePromises[awaited]

\* await resumePromise, resumed (at once when resumePromise was undefined or
\* already settled): state$.set('running'), or the catch of the skip error;
\* then current$.set(...).
LoopResume ==
    /\ currentRef' = cloneContainer(allZeros)
    /\ UNCHANGED <<velocityRef, targetRef>>
    /\ UNCHANGED <<reported, vec>>
    /\ pc = "resume"
    /\ AwaitedResume # "pending"
    /\ IF AwaitedResume = "rejected"
       THEN /\ SnapToTarget
            /\ UNCHANGED <<state, idleGate>>
       ELSE /\ SetState(resumedState)
            /\ UNCHANGED <<physicsState, interpolatedState, remainingDelta,
                           done>>
    /\ awaited' = 0
    /\ current' = float32ArrayToValue(interpolatedState'.value)
    /\ pc' = "velocity"
    /\ op' = Step("follow:resume", NoAwait, TRUE)
    /\ UNCHANGED <<config, targetValue, target, velocity, pauseGate,
                   resumeGate, previousTime, rafPromise, loops, history>>

\* request() of the frame scheduler throws: the promise waitAnimationFrame()
\* returned is rejected.
FrameFailure ==
    /\ rafPromise.status = "pending"
    /\ rafPromise' = [status |-> "rejected", time |-> 0]
    /\ op' = Step("frame:error", NoAwait, FALSE)
    /\ UNCHANGED <<config, physics, stores, gates, pc, done, previousTime,
                   awaited, loops, history, reported, refs, vec>>

\* await waitAnimationFrame() throws in follow(): the finally block, then the
\* catch the target$ subscriber gave follow()'s promise.
LoopFrameError ==
    /\ pc \in {"previousTime", "currentTime"}
    /\ rafPromise.status = "rejected"
    /\ SetState(finallyState)
    /\ reported' = reported + 1
    /\ pc' = "none"
    /\ done' = FALSE
    /\ previousTime' = FALSE
    /\ rafPromise' = NoFrame
    /\ loops' = loops - 1
    /\ skipFrom' = "none"
    /\ op' = Step("follow:error", NoAwait, FALSE)
    /\ UNCHANGED <<config, physics, target, current, velocity, pauseGate,
                   resumeGate, awaited, resumedIn, firstTarget, refs, vec>>

\* The store with its public methods; damping() and stiffness(), and the
\* accessors called with a value, are in NextAccessors and NextTuned.
Next ==
    \/ \E v \in Targets : TargetSet(v)
    \/ Pause
    \/ Resume
    \/ Skip
    \/ Idle
    \/ Precision(Undefined)
    \/ \E delta \in FrameDeltas : FrameCallback(delta)
    \/ LoopPreviousTime
    \/ LoopFrame
    \/ LoopVelocity
    \/ LoopWhile
    \/ LoopResume

Spec == Init /\ [][Next]_vars

\* The store with a frame scheduler whose request() may throw.
NextFrameFailure ==
    \/ \E v \in Targets : TargetSet(v)
    \/ Pause
    \/ Resume
    \/ Skip
    \/ \E delta \in TunedFrameDeltas : FrameCallback(delta)
    \/ FrameFailure
    \/ LoopPreviousTime
    \/ LoopFrame
    \/ LoopVelocity
    \/ LoopWhile
    \/ LoopResume
    \/ LoopFrameError

SpecFrameFailure == Init /\ [][NextFrameFailure]_vars

\* makeSpringStore(value, config?) on a number, with stiffness, damping and
\* precision either configured as above or left out.
InitAccessors ==
    /\ InitStore
    /\ shape = "number"
    /\ \E given \in BOOLEAN :
          /\ stiffness = Configured(IF given THEN stiffnessConfig
                                    ELSE Undefined, stiffnessDefault)
          /\ damping = Configured(IF given THEN dampingConfig
                                  ELSE Undefined, dampingDefault)
          /\ precision = Configured(IF given THEN precisionConfig
                                    ELSE Undefined, precisionDefault)

\* The store whose accessors are called with and without a value, at rest
\* and during a run.
NextAccessors ==
    \/ \E v \in Targets : TargetSet(v)
    \/ Pause
    \/ Resume
    \/ Skip
    \/ \E newPrecision \in PrecisionArgs : Precision(newPrecision)
    \/ \E newDamping \in DampingArgs : Damping(newDamping)
    \/ \E newStiffness \in StiffnessArgs : Stiffness(newStiffness)
    \/ \E delta \in StalledFrameDeltas : FrameCallback(delta)
    \/ LoopPreviousTime
    \/ LoopFrame
    \/ LoopVelocity
    \/ LoopWhile
    \/ LoopResume

SpecAccessors == InitAccessors /\ [][NextAccessors]_vars

\* The store on a number whose stiffness and damping are set during the
\* runs; a frame is followed as long as the physics state stays within
\* MaxMagnitude.
InitTuned ==
    /\ Init
    /\ shape = "number"

WithinMagnitude ==
    /\ \A i \in 1..Len(physicsState'.value) :
          Abs(physicsState'.value[i]) <= MaxMagnitude
    /\ \A i \in 1..Len(physicsState'.velocity) :
          Abs(physicsState'.velocity[i]) <= MaxMagnitude

\* A frame of that store.
TunedFrame ==
    /\ LoopFrame
    /\ WithinMagnitude

NextTuned ==
    \/ \E v \in TunedTargets : TargetSet(v)
    \/ \E newDamping \in TunedDamping : Damping(newDamping)
    \/ \E newStiffness \in TunedStiffness : Stiffness(newStiffness)
    \/ \E delta \in TunedFrameDeltas : FrameCallback(delta)
    \/ LoopPreviousTime
    \/ TunedFrame
    \/ LoopVelocity
    \/ LoopWhile

SpecTuned == InitTuned /\ [][NextTuned]_vars

---------------------------------------------------------------------------
\* src/lib/vec-math called on its own, on buffers that may be one and the
\* same object.  buffers is the heap of the Float32Arrays allocated so far, a
\* buffer is known by its index there, and call is the last call with the
\* index of the buffer it returned.

\* const target = copy ? new Float32Array(vMut) : vMut
targetInPlace(vMut, copy) == vMut
vecTarget(vMut, copy) == IF copy THEN Len(buffers) + 1 ELSE vMut

\* The heap after the loop has written result, element by element, into
\* buffer t.
Written(t, result) ==
    [b \in 1..(IF t > Len(buffers) THEN t ELSE Len(buffers)) |->
        IF b = t THEN result ELSE buffers[b]]

VecCall(fn, vMut, other, k, copy, result) ==
    /\ vMut <= Len(buffers)
    /\ other <= Len(buffers)
    /\ vecTarget(vMut, copy) <= MaxBuffers
    /\ \A x \in 1..Len(result) : Abs(result[x]) <= MaxComponent
    /\ buffers' = Written(vecTarget(vMut, copy), result)
    /\ call' = [fn |-> fn, vMut |-> vMut, other |-> other, k |-> k,
                copy |-> copy, returned |-> vecTarget(vMut, copy)]

\* new Float32Array(v)
NewFloat32Array(v) ==
    /\ Len(buffers) < MaxBuffers
    /\ buffers' = Append(buffers, v)
    /\ call' = [NoCall EXCEPT !.fn = "new", !.returned = Len(buffers) + 1]
    /\ UNCHANGED <<config, physics, stores, gates, loop, op, history,
                   reported, refs>>

Add(vMut, other, copy) ==
    /\ VecCall("add", vMut, other, <<1, 1>>, copy,
               add(buffers[vMut], buffers[other], copy))
    /\ UNCHANGED <<config, physics, stores, gates, loop, op, history,
                   reported, refs>>

Sub(vMut, other, copy) ==
    /\ VecCall("sub", vMut, other, <<1, 1>>, copy,
               sub(buffers[vMut], buffers[other], copy))
    /\ UNCHANGED <<config, physics, stores, gates, loop, op, history,
                   reported, refs>>

Scale(vMut, k, copy) ==
    /\ VecCall("scale", vMut, 0, k, copy, scale(buffers[vMut], k, copy))
    /\ UNCHANGED <<config, physics, stores, gates, loop, op, history,
                   reported, refs>>

InitVec ==
    /\ Init
    /\ shape = "number"

NextVec ==
    \/ \E v \in VecInputs : NewFloat32Array(v)
    \/ \E vMut, other \in 1..MaxBuffers, copy \in BOOLEAN :
          Add(vMut, other, copy)
    \/ \E vMut, other \in 1..MaxBuffers, copy \in BOOLEAN :
          Sub(vMut, other, copy)
    \/ \E vMut \in 1..MaxBuffers, k \in ScaleFactors, copy \in BOOLEAN :
          Scale(vMut, k, copy)

SpecVec == InitVec /\ [][NextVec]_vars

---------------------------------------------------------------------------
\* The claims.

\* C1: whenever the state is idle, the published current value equals the
\* most recently set target, component by component.
C1_IdleCurrentIsTarget == state = "idle" => current = target

\* C2 as stated: the states delivered over one run have the form idle, running,
\* (pausing, paused, running)*, optionally skipping, then idle; that is, every
\* change of the state is a step of that form.
ClaimedSteps ==
    {<<"idle", "running">>, <<"running", "pausing">>, <<"pausing", "paused">>,
     <<"paused", "running">>, <<"running", "skipping">>,
     <<"running", "idle">>, <<"skipping", "idle">>}
ObservedSteps ==
    {<<"idle", "running">>,
     <<"running", "pausing">>, <<"running", "skipping">>, <<"running", "idle">>,
     <<"pausing", "paused">>, <<"pausing", "skipping">>, <<"pausing", "idle">>,
     <<"paused", "running">>, <<"paused", "skipping">>}
C3_SkippingThenIdle ==
    [][state = "skipping" /\ state' # state => state' = "idle"]_vars

\* C4: after skip() has been invoked during a run (the state is skipping), a
\* value published to the current-value store is the latched target itself.
C4_OnlyTargetAfterSkip ==
    (op.pub /\ state = "skipping")
        => current = float32ArrayToValue(targetValue)

\* C5: skip() invoked while the state is pausing rejects the pending pause()
\* promise, a rejected pause() promise is never resolved, and the run so
\* skipped ends in idle with the current value equal to the target.
C5_SkipWhilePausing ==
    [][/\ (op'.name = "skip" /\ state = "pausing")
            => pausePromises'[pausePromise] = "rejected"
       /\ \A i \in 1..Len(pausePromises) :
            pausePromises[i] = "rejected" => pausePromises'[i] = "rejected"
       /\ (skipFrom = "pausing" /\ state # "idle" /\ state' = "idle")
            => current' = target']_vars

\* C6: no pause() caller is still waiting once the run has returned to idle:
\* in idle no promise made by pause() is pending.
C6_NoPauseWaiterAtIdle ==
    state = "idle"
        => \A i \in 1..Len(pausePromises) : pausePromises[i] # "pending"

\* C7: a pause() call made while the state is pausing awaits the promise of
\* the pause under way and changes nothing; the state becomes pausing only by
\* a pause() call that finds it running, and paused only by the loop
\* resolving that one promise; a resume() call that finds the resume promise
\* already settled changes nothing, and the state leaves paused for running
\* only by the loop's continuation.
C7_PauseResumeIdempotent ==
    [][/\ (op'.name = "pause" /\ state = "pausing")
            => /\ state' = "pausing"
               /\ UNCHANGED <<pauseGate, resumeGate>>
               /\ pausePromise = Len(pausePromises)
               /\ pausePromises[pausePromise] = "pending"
               /\ op'.awaits = <<"pause", pausePromise>>
       /\ (state' = "pausing" /\ state # "pausing")
            => (op'.name = "pause" /\ state = "running")
       /\ (state' = "paused" /\ state # "paused")
            => /\ state = "pausing"
               /\ op'.name = "follow:pausing"
               /\ pausePromises'[pausePromise] = "resolved"
       /\ (op'.name = "resume" /\ resolveResumePromise = 0)
            => UNCHANGED <<physics, stores, gates, loop>>
       /\ (state = "paused" /\ state' = "running")
            => op'.name = "follow:resume"]_vars

\* A second pause() call has been made while the first was pending.
C7_Witness ==
    /\ op.name = "pause"
    /\ op.from = "pausing"
    /\ state = "pausing"
    /\ op.awaits = <<"pause", pausePromise>>

\* C8: the promise of a skip() call that awaits nothing resolves at once, so
\* the state is then idle and the current value equals the target.
C8_SkipResolvesAtIdle ==
    (op.name = "skip" /\ op.awaits = NoAwait)
        => (state = "idle" /\ current = target)

\* C9: resume() invoked in a state other than paused changes neither the
\* state nor a later transition: the state leaves paused for running only
\* after a resume() made while it was paused.
C9_ResumeOnlyWhenPaused ==
    [][/\ (op'.name = "resume" /\ state # "paused") => state' = state
       /\ (state = "paused" /\ state' = "running")
            => resumedIn = "paused"]_vars

\* C10: pause() invoked while the state is idle awaits nothing: its promise
\* resolves at once.
C10_PauseAtIdleResolves ==
    (op.name = "pause" /\ op.from = "idle") => op.awaits = NoAwait

\* C11: pause() invoked while the state is running moves it to pausing;
\* invoked in any other state it leaves the state, the target, the current
\* value and the velocity unchanged.
C11_PauseOnlyFromRunning ==
    [][op'.name = "pause"
          => /\ state = "running" => state' = "pausing"
             /\ state # "running" => UNCHANGED <<state, target, current,
                                                velocity>>]_vars

\* pause() has been invoked right after a skip() took effect (the order of
\* tests/spring.test.ts:262-270) and changed nothing.
C11_Witness ==
    /\ op.name = "pause"
    /\ op.from = "skipping"
    /\ state = "skipping"
    /\ pausePromises = << >>

\* C12: skip() moves the state to skipping when it is running, pausing or
\* paused and in no other state; invoked while idle it leaves the state, the
\* current value and the velocity unchanged and awaits nothing.
C12_SkipFromRunningPausingPaused ==
    [][op'.name = "skip"
          => /\ state \in {"running", "pausing", "paused"}
                  => state' = "skipping"
             /\ state \notin {"running", "pausing", "paused"}
                  => state' = state
             /\ state = "idle"
                  => /\ UNCHANGED <<state, current, velocity>>
                     /\ op'.awaits = NoAwait]_vars

\* skip() has taken effect on a paused store.
C12_Witness ==
    /\ op.name = "skip"
    /\ op.from = "paused"
    /\ state = "skipping"
    /\ pc = "resume"

\* C13: resume() invoked while the state is paused resolves the promise the
\* loop awaits; the loop's continuation then sets the state to running, and
\* from the moment the loop waits until that continuation the physics state
\* (value and velocity), the interpolated state and the remaining delta do
\* not change.
C13_ResumeContinuesPhysics ==
    [][/\ (op'.name = "resume" /\ state = "paused" /\ resumePromise # 0)
            => /\ pc = "resume"
               /\ awaited = resumePromise
               /\ resumePromises'[awaited] = "resolved"
       /\ (pc = "resume" /\ op'.name = "follow:resume"
             /\ AwaitedResume = "resolved")
            => /\ state' = "running"
               /\ UNCHANGED <<physicsState, interpolatedState,
                              remainingDelta>>
       /\ (pc = "resume" /\ op'.name # "follow:resume")
            => UNCHANGED <<physicsState, interpolatedState,
                           remainingDelta>>]_vars

\* The loop has gone on after a resume() made while paused, with the spring
\* still in motion.
C13_Witness ==
    /\ op.name = "follow:resume"
    /\ op.from = "paused"
    /\ resumedIn = "paused"
    /\ state = "running"
    /\ SomeAtLeast(physicsState.velocity, 1)

\* C14: idle() invoked while the state is idle awaits nothing; invoked while
\* the state is not idle it awaits the one pending promise of the run, which
\* stays the same and pending while the state is not idle and is resolved by
\* the transition to idle and by nothing else, so that every idle() call of
\* a run resolves at that transition.
C14_IdleWait ==
    [][/\ (op'.name = "idle" /\ state = "idle") => op'.awaits = NoAwait
       /\ (op'.name = "idle" /\ state # "idle")
            => /\ op'.awaits = <<"idle", idlePromise>>
               /\ idlePromise = Len(idlePromises)
               /\ idlePromises[idlePromise] = "pending"
       /\ (state # "idle" /\ state' # "idle") => UNCHANGED idleGate
       /\ (state # "idle" /\ state' = "idle")
            => \A i \in 1..Len(idlePromises') : idlePromises'[i] = "resolved"
       /\ \A i \in 1..Len(idlePromises) :
            (idlePromises[i] = "pending" /\ idlePromises'[i] # "pending")
                => (state # "idle" /\ state' = "idle")]_vars

\* idle() has been invoked on a paused store in its second run.
C14_Witness ==
    /\ op.name = "idle"
    /\ op.from = "paused"
    /\ op.awaits = <<"idle", 2>>
    /\ idlePromises = <<"resolved", "pending">>

\* C15: at most one call of follow() is past the idle guard and has not
\* returned, and there is one exactly when the state is not idle.
C15_SingleLoop ==
    /\ loops \in {0, 1}
    /\ loops = 1 <=> state # "idle"
    /\ loops = 1 <=> pc # "none"

\* A target has been set while the loop of the run was suspended in paused.
C15_Witness ==
    /\ op.name = "target$.set"
    /\ op.from = "paused"
    /\ loops = 1
    /\ pc = "resume"

\* C16: a target set while the state is running, pausing, paused or skipping
\* replaces the latched target and nothing else: the state, the loop, the
\* frame request, the physics state and the published values are unchanged
\* and no second loop starts; the latched target is always the Float32Array
\* of the target last set, and the steps of the loop read it when they run:
\* a snap puts the value on it, and a frame that integrates one sub-step
\* without converging measures the remaining delta from it.
C16_TargetSetWhileActive ==
    [][/\ (op'.name = "target$.set" /\ state # "idle")
            => UNCHANGED <<state, loop, gates, physicsState,
                           interpolatedState, remainingDelta, current,
                           velocity>>
       /\ targetValue' = valueToFloat32Array(target')
       /\ (done' /\ ~done) => physicsState'.value = targetValue
       /\ (op'.name = "follow:frame" /\ ~done'
             /\ SampledInterval(rafPromise.time) > 0
             /\ SampledInterval(rafPromise.time) <= dt)
            => remainingDelta' = sub(targetValue, physicsState.value, TRUE)]_vars

\* A new target has been set during a skip, before the loop snapped.
C16_Witness ==
    /\ op.name = "target$.set"
    /\ op.from = "skipping"
    /\ state = "skipping"
    /\ ~done
    /\ targetValue # physicsState.value
    /\ target = 33554434

\* C17: a target set that notifies while the state is idle leaves the state
\* running, with the loop started and its first frame requested, when the
\* call returns, and the call changes neither the current value nor the
\* velocity.
C17_TargetSetAtIdle ==
    [][(op'.name = "target$.set" /\ state = "idle")
          => /\ state' = "running"
             /\ loops' = 1
             /\ rafPromise'.status = "pending"
             /\ UNCHANGED <<current, velocity>>]_vars

\* The second run of a store has just been started by a target set.
C17_Witness ==
    /\ op.name = "target$.set"
    /\ op.from = "idle"
    /\ state = "running"
    /\ idlePromises = <<"resolved", "pending">>
    /\ current # target

\* C18: until the first target is set, a store of any shape is idle, its
\* current value and its target are the initial value, its velocity and its
\* speed are zero, and no frame is requested and no loop runs.
C18_NewStoreRests ==
    firstTarget
        => /\ state = "idle"
           /\ current = target
           /\ shape = "number" => target \in InitialNumbers
           /\ shape = "array" => target \in InitialArrays
           /\ shape = "record" => target \in InitialRecords
           /\ velocity = allZeros
           /\ speed = 0
           /\ rafPromise.status = "none"
           /\ pc = "none"
           /\ loops = 0

\* skip() has been invoked on a record store whose target was never set.
C18_Witness ==
    /\ firstTarget
    /\ shape = "record"
    /\ op.name = "skip"
    /\ current = [x |-> 0, y |-> 2]

\* C19: while the state is paused and neither resume() has been invoked since
\* it became paused nor skip() is being invoked, no step publishes a current
\* value or a velocity, changes the physics state or requests a frame.
C19_PausedIsInert ==
    [][(state = "paused" /\ resumedIn # "paused"
          /\ op'.name \notin {"resume", "skip"})
          => /\ ~op'.pub
             /\ rafPromise.status = "none"
             /\ UNCHANGED <<current, velocity, physicsState,
                            interpolatedState, remainingDelta,
                            rafPromise>>]_vars

\* C20: while the state is idle no frame request is outstanding and no loop
\* runs; the state leaves idle only by a target set; pause(), resume(),
\* skip(), idle() and the accessors invoked at idle change neither the
\* stores nor the loop nor the frame request.
C20_IdleIsInert ==
    [][/\ state = "idle"
            => (rafPromise.status = "none" /\ pc = "none" /\ loops = 0)
       /\ state' = "idle"
            => (rafPromise'.status = "none" /\ pc' = "none" /\ loops' = 0)
       /\ (state = "idle" /\ state' # "idle") => op'.name = "target$.set"
       /\ (state = "idle"
             /\ op'.name \in {"pause", "resume", "skip", "idle",
                              "precision", "damping", "stiffness"})
            => UNCHANGED <<stores, loop, physics>>]_vars

\* The precision accessor has been invoked on a store that is idle after a
\* run.
C20_Witness ==
    /\ state = "idle"
    /\ op.name = "precision"
    /\ op.from = "idle"
    /\ idlePromises = <<"resolved">>
    /\ ~firstTarget

C22_PauseAbortsFrameWait ==
    [][(op'.name = "pause" /\ state = "running"
          /\ rafPromise.status = "pending")
          => rafPromise'.status # "pending"]_vars

\* C23: when a frame wait has failed, the loop's next step ends the run: the
\* state becomes idle, every promise idle() callers wait on is resolved, the
\* error is reported once, no frame request is left and no loop remains; no
\* other step of the loop runs on the failed wait.
C23_FrameFailureEndsRun ==
    [][/\ (rafPromise.status = "rejected" /\ op'.name = "follow:error")
            => /\ state # "idle"
               /\ state' = "idle"
               /\ \A i \in 1..Len(idlePromises') :
                     idlePromises'[i] = "resolved"
               /\ reported' = reported + 1
               /\ rafPromise'.status = "none"
               /\ pc' = "none"
               /\ loops' = 0
       /\ (rafPromise.status = "rejected" /\ op'.name # "follow:error")
            => UNCHANGED <<rafPromise, pc, loops, reported, current,
                           velocity, physicsState>>
       /\ reported' # reported => op'.name = "follow:error"]_vars

\* A run has been ended by a failed frame wait while the spring was away
\* from its target.
C23_Witness ==
    /\ op.name = "follow:error"
    /\ state = "idle"
    /\ reported = 1
    /\ idlePromises = <<"resolved">>
    /\ current # target

\* C24: the containers the current-value store and the velocity store hold
\* are containers the store allocated for that content: neither is the
\* argument of makeSpringStore nor a container a caller gave to target$.set.
C24_NoSharedContainer ==
    shape # "number"
        => /\ currentRef = "fresh"
           /\ velocityRef = "fresh"

\* C25: an accessor called with a value stores it and returns it, called
\* without one it returns the value last stored, which at first is the
\* configured value or else 300, 30 and 0.1; no accessor changes the other two
\* values or the run, and nothing else changes any of the three.
C25_Accessors ==
    /\ stiffness \in {stiffnessConfig, 300}
    /\ damping \in {dampingConfig, 30}
    /\ precision \in {precisionConfig, 1}
    /\ [][/\ op'.name = "stiffness"
               => /\ stiffness' = IF op'.arg # Undefined THEN op'.arg
                                  ELSE stiffness
                  /\ op'.ret = stiffness'
                  /\ UNCHANGED <<damping, precision>>
          /\ op'.name = "damping"
               => /\ damping' = IF op'.arg # Undefined THEN op'.arg
                                ELSE damping
                  /\ op'.ret = damping'
                  /\ UNCHANGED <<stiffness, precision>>
          /\ op'.name = "precision"
               => /\ precision' = IF op'.arg # Undefined THEN op'.arg
                                  ELSE precision
                  /\ op'.ret = precision'
                  /\ UNCHANGED <<stiffness, damping>>
          /\ op'.name \in {"stiffness", "damping", "precision"}
               => UNCHANGED <<physics, stores, gates, loop, reported>>
          /\ op'.name \notin {"stiffness", "damping", "precision"}
               => UNCHANGED <<stiffness, damping, precision>>]_vars

\* During a run of a store made without configuration, stiffness(1) has
\* stored 1 and a later damping() returns the default 30.
C25_Witness ==
    /\ op.name = "damping"
    /\ op.arg = Undefined
    /\ op.ret = 30
    /\ stiffness = 1
    /\ precision = 1
    /\ state = "running"

\* The element-wise result of fn on a and b, or on a and the factor k.
C26_Result(fn, a, b, k) ==
    [x \in 1..Len(a) |->
        IF fn = "add" THEN Fround(a[x] + b[x])
        ELSE IF fn = "sub" THEN Fround(a[x] - b[x])
        ELSE Fround(Times(a[x], k))]

\* A step is a call of add, sub or scale.
C26_Called ==
    /\ call'.fn \in {"add", "sub", "scale"}
    /\ <<buffers, call>>' # <<buffers, call>>

C27_RoundTrip == float32ArrayToValue(valueToFloat32Array(target)) = target

\* The loop resumes from the wait for currentTime and runs a frame.
FrameRuns == pc = "currentTime" /\ op'.name = "follow:frame"

\* C28: the interval a frame simulates is the difference of the last two
\* timestamps, stepSize when that difference is zero or negative, and at most
\* maxFrameInterval; the frame runs at least one sub-step.
C28_FrameInterval ==
    [][FrameRuns =>
        LET difference == rafPromise.time
            interval   == Min(maxDt, IF difference <= 0 THEN dt
                                     ELSE difference)
        IN  /\ SampledInterval(difference) = interval
            /\ FrameSteps(difference).remainingDt <= interval - dt]_vars

\* C29: a frame ends the run exactly when, after its sub-steps, every
\* component of target minus physics value and of the physics velocity is
\* below precision; the value it then publishes is the target.
C29_StopCondition ==
    [][FrameRuns =>
        LET f     == FrameSteps(rafPromise.time)
            delta == sub(targetValue, f.physicsState.value, TRUE)
            below == /\ \A i \in 1..Len(delta) :
                            10 * Abs(delta[i]) < precision
                     /\ \A i \in 1..Len(delta) :
                            10 * Abs(f.physicsState.velocity[i]) < precision
        IN  /\ done' <=> below
            /\ done' => current' = float32ArrayToValue(targetValue)]_vars

\* ratio * a + (1 - ratio) * b, element by element, for the ratio num / dt.
C30_Blend(a, b, num) ==
    [i \in 1..Len(a) |->
        Fround(Fround(Times(a[i], <<num, dt>>))
               + Fround(Times(b[i], <<dt - num, dt>>)))]

\* C30: on every frame the interpolation ratio 1 + r / stepSize is in (0, 1],
\* r being the remainder left by the sub-steps, and a frame that does not end
\* the run publishes ratio times the physics state plus (1 - ratio) times the
\* physics state before the last sub-step, for the value and the velocity.
C30_Interpolation ==
    [][FrameRuns =>
        LET f   == FrameSteps(rafPromise.time)
            num == dt + f.remainingDt
        IN  /\ 0 < num /\ num <= dt
            /\ ~done'
                 => /\ interpolatedState'.value
                         = C30_Blend(f.physicsState.value,
                                     f.previousState.value, num)
                    /\ interpolatedState'.velocity
                         = C30_Blend(f.physicsState.velocity,
                                     f.previousState.velocity, num)
                    /\ current'
                         = float32ArrayToValue(interpolatedState'.value)]_vars

\* The sub-steps the frame of this step runs: each takes dt off the interval.
C31_SubSteps ==
    (SampledInterval(rafPromise.time)
        - FrameSteps(rafPromise.time).remainingDt) \div dt

\* C31: a frame runs at most ceiling(maxFrameInterval / stepSize) sub-steps,
\* however far its timestamp is from the previous one.
C31_SubStepsBounded ==
    [][FrameRuns =>
        /\ C31_SubSteps * dt = SampledInterval(rafPromise.time)
                                 - FrameSteps(rafPromise.time).remainingDt
        /\ C31_SubSteps <= (maxDt + dt - 1) \div dt]_vars

\* A frame has been delivered 9 s after the previous one, and the loop is to
\* run two sub-steps for it.
C31_Witness ==
    /\ pc = "currentTime"
    /\ rafPromise = [status |-> "resolved", time |-> 9000]
    /\ C31_SubSteps = 2

\* C32: skip() invoked while the state is pausing sets it to skipping, and
\* from then on the state of that run is skipping until it is idle: it does
\* not become paused.
C32_SkipWinsOverPause ==
    [][/\ (op'.name = "skip" /\ state = "pausing")
            => (state' = "skipping" /\ skipFrom' = "pausing")
       /\ skipFrom = "pausing"
            => (state = "skipping" /\ state' \in {"skipping", "idle"})]_vars

\* The loop has met the state skipping that a skip() during pausing set.
C32_Witness ==
    /\ op.name = "follow:skipping"
    /\ skipFrom = "pausing"
    /\ state = "skipping"
    /\ done

\* C33: after skip() has been invoked while the state is paused, the run ends
\* without a frame: no frame is requested, the continuation of the wait for
\* resume() snaps the physics state to the target, and the state stays
\* skipping until it is idle.
C33_SkipWhilePaused ==
    [][/\ (op'.name = "skip" /\ state = "paused")
            => (state' = "skipping" /\ skipFrom' = "paused")
       /\ skipFrom = "paused"
            => /\ rafPromise.status = "none"
               /\ rafPromise'.status = "none"
               /\ state = "skipping"
               /\ state' \in {"skipping", "idle"}
               /\ (pc = "resume" /\ pc' # pc)
                    => (done' /\ physicsState' = skipToTarget)]_vars

\* C34: a resume gate that skip() rejects is the one the loop is awaiting, so
\* that the loop's catch observes the rejection.
C34_SkipRejectsAwaitedGate ==
    [][op'.name = "skip"
        => \A i \in 1..Len(resumePromises) :
             (resumePromises[i] = "pending" /\ resumePromises'[i] = "rejected")
                => (pc = "resume" /\ awaited = i)]_vars

\* C35: whenever the state is idle the published velocity is zero in every
\* component and the speed is 0.
C35_IdleAtRest ==
    state = "idle" => (velocity = cloneValue(allZeros) /\ speed = 0)

\* C36: the last sub-step of a frame takes the physics state (value,
\* velocity) before it to velocity' = velocity + ((target - value) * stiffness
\* - velocity * damping) * h and value' = value + velocity' * h, with h the
\* step size and the stiffness and damping the store holds when the frame
\* runs.
C36_SubStep ==
    [][FrameRuns =>
        LET f == FrameSteps(rafPromise.time)
            a == f.previousState
            b == f.physicsState
        IN  \A i \in 1..Len(targetValue) :
              /\ b.velocity[i] * 1000
                   = a.velocity[i] * 1000
                     + ((targetValue[i] - a.value[i]) * stiffness
                        - a.velocity[i] * damping) * dt
              /\ b.value[i] * 1000 = a.value[i] * 1000 + b.velocity[i] * dt]_vars

\* A frame has run a sub-step with the stiffness 2 and the damping 2 set
\* during the run, from a moving state.
C36_Witness ==
    /\ op.name = "follow:frame"
    /\ stiffness = 2
    /\ damping = 2
    /\ ~done
    /\ physicsState.velocity # Zeros
    /\ physicsState.value # targetValue

\* C37: when the loop evaluates its switch the state is running, pausing or
\* skipping; on running it suspends on a frame request, on pausing it
\* suspends on the wait for resume(), on skipping it ends the run.
C37_LoopNeverSpins ==
    [][(pc = "while" /\ ~done /\ pc' # pc)
        => /\ state \in {"running", "pausing", "skipping"}
           /\ state = "running"
                => /\ pc' \in {"previousTime", "currentTime"}
                   /\ rafPromise'.status = "pending"
           /\ state = "pausing" => (pc' = "resume" /\ state' = "paused")
           /\ state = "skipping" => done']_vars

\* After a pause and a resume the loop is at a frame wait again.
C37_Witness ==
    /\ op.name = "follow:running"
    /\ resumedIn = "paused"
    /\ pc = "currentTime"
    /\ rafPromise.status = "pending"

\* C38: a frame is requested only when no request is outstanding: by the
\* start of a run, by the continuation of a delivered first frame, and by the
\* running case of the loop after the frame it waited for was delivered; and
\* no request is outstanding when the state is paused or idle.
C38_OneFrameRequest ==
    [][/\ (op'.name = "target$.set" /\ loops' > loops)
            => (rafPromise.status = "none" /\ rafPromise'.status = "pending")
       /\ (pc = "previousTime" /\ pc' = "currentTime")
            => (rafPromise.status = "resolved"
                /\ rafPromise'.status = "pending")
       /\ (pc = "while" /\ op'.name = "follow:running")
            => (rafPromise.status = "none" /\ rafPromise'.status = "pending")
       /\ (rafPromise.status # "pending" /\ rafPromise'.status = "pending")
            => op'.name \in {"target$.set", "follow:previousTime",
                             "follow:running"}
       /\ state' \in {"paused", "idle"} => rafPromise'.status = "none"]_vars

\* The run is paused after its frames were delivered, with no request left.
C38_Witness ==
    /\ state = "paused"
    /\ previousTime
    /\ rafPromise.status = "none"
    /\ loops = 1

\* C39: the idle promise exists exactly when the state is not idle; it is
\* made, pending, by the step that leaves idle, stays the same one while the
\* state is not idle, and is resolved and cleared by the step back to idle.
C39_IdleGate ==
    /\ idlePromise # 0 <=> state # "idle"
    /\ [][/\ idlePromise' # 0 <=> state' # "idle"
          /\ (state = "idle" /\ state' # "idle")
               => /\ idlePromise' = Len(idlePromises) + 1
                  /\ resolveIdlePromise' = idlePromise'
                  /\ idlePromises' = Append(idlePromises, "pending")
          /\ (state # "idle" /\ state' # "idle")
               => (UNCHANGED idleGate /\ idlePromises[idlePromise] = "pending")
          /\ (state # "idle" /\ state' = "idle")
               => /\ idlePromises'
                       = [idlePromises EXCEPT ![idlePromise] = "resolved"]
                  /\ resolveIdlePromise' = 0
          /\ (state = "idle" /\ state' = "idle") => UNCHANGED idleGate]_vars

\* The promise of the second run is still the one made when that run
\* started, now that the run is being skipped from paused.
C39_Witness ==
    /\ state = "skipping"
    /\ skipFrom = "paused"
    /\ idlePromise = 2
    /\ resolveIdlePromise = 2
    /\ idlePromises = <<"resolved", "pending">>

====
